---- MODULE Spec2Model ----
(***************************************************************************)
(* TimeSeriesPlot_Plotly (src/visualisation/plotly_chroniques.py): the     *)
(* engine object, its constructor, add_series, add_line, add_rectangle and *)
(* create_figure.  A data frame is a sequence of rows (records); a value   *)
(* is an exact rational [n, d]; a timestamp is a calendar date [y, m, d].  *)
(***************************************************************************)
EXTENDS Integers, Sequences, FiniteSets, TLC

VARIABLES
    mode,            \* self.mode
    focus_year,      \* self.focus_year (NoneVal when None)
    start_month,     \* self.start_month (NoneVal when None)
    cumul,           \* self.cumul
    title,           \* self.title
    x_range,         \* self.x_range
    series_list,     \* self.series_list
    line_list,       \* self.line_list
    rectangle_list,  \* self.rectangle_list
    freq,            \* self.freq ("unset" before the first add_series)
    legend_name,     \* self.legend_name
    rolling_window,  \* self.rolling_window (Unset before the first add_series)
    var_col,         \* self.var_col (set by create_figure only)
    ctor,            \* history: the constructor's arguments
    warnings,        \* history: the warnings logged so far
    last,            \* history: the last add_series call, its stages and outcome
    fig,             \* history: the outcome of the last create_figure
    ncalls,          \* history: number of calls made on the engine
    twin             \* a second engine, constructed with mode 'historical' where
                     \* the first was given 'statistics' without focus year, the
                     \* other arguments and every later call being the same

vars == <<mode, focus_year, start_month, cumul, title, x_range, series_list,
          line_list, rectangle_list, freq, legend_name, rolling_window, var_col,
          ctor, warnings, last, fig, ncalls, twin>>

-----------------------------------------------------------------------------
(* Python's None for the integer-valued arguments, and a missing attribute. *)
NoneVal == 0
Unset == -1

-----------------------------------------------------------------------------
(* Bounds of the model.                                                    *)
MaxCalls == 2        \* add_series calls per engine in the life-cycle specification
MaxLines == 1        \* reference lines, and rectangles, per engine
MaxYears == 4        \* calendar years in a sparse input series

-----------------------------------------------------------------------------
(* Exact rational arithmetic for the float64 values.                       *)
Abs(i) == IF i < 0 THEN -i ELSE i

RECURSIVE GCD(_, _)
GCD(a, b) == IF b = 0 THEN a ELSE GCD(b, a % b)

Q(n, d) == LET g == GCD(Abs(n), d) IN [n |-> n \div g, d |-> d \div g]
QInt(i) == [n |-> i, d |-> 1]
NaN == [n |-> 0, d |-> 0]
IsNaN(v) == v.d = 0
QAdd(a, b) == IF a.d = 1 /\ b.d = 1 THEN [n |-> a.n + b.n, d |-> 1]
              ELSE Q(a.n * b.d + b.n * a.d, a.d * b.d)
QSub(a, b) == Q(a.n * b.d - b.n * a.d, a.d * b.d)
QMulFrac(a, k, m) == Q(a.n * k, a.d * m)
QLeq(a, b) == a.n * b.d <= b.n * a.d
QLt(a, b) == a.n * b.d < b.n * a.d

(* Sum of the values s[lo..hi], by halves. *)
RECURSIVE SumRange(_, _, _)
SumRange(s, lo, hi) ==
    IF lo > hi THEN QInt(0)
    ELSE IF lo = hi THEN s[lo]
    ELSE LET mid == (lo + hi) \div 2
         IN QAdd(SumRange(s, lo, mid), SumRange(s, mid + 1, hi))

SumQ(s) == SumRange(s, 1, Len(s))
MeanQ(s) == LET t == SumQ(s) IN Q(t.n, t.d * Len(s))

(* Concatenation of the sequences f[lo], ..., f[hi], by halves. *)
RECURSIVE Flatten(_, _, _)
Flatten(f, lo, hi) ==
    IF lo > hi THEN <<>>
    ELSE IF lo = hi THEN f[lo]
    ELSE LET mid == (lo + hi) \div 2
         IN Flatten(f, lo, mid) \o Flatten(f, mid + 1, hi)

(* A sequence built by a function constructor, evaluated once. *)
Materialize(s) == SelectSeq(s, LAMBDA r : TRUE)
MapSeq(s, Op(_)) == Materialize([i \in 1..Len(s) |-> Op(s[i])])
Range(s) == {s[i] : i \in 1..Len(s)}

(* Least and greatest element of s[lo..hi], by halves (lo <= hi). *)
RECURSIVE MinRange(_, _, _)
MinRange(s, lo, hi) ==
    IF lo = hi THEN s[lo]
    ELSE LET mid == (lo + hi) \div 2
             a == MinRange(s, lo, mid)
             b == MinRange(s, mid + 1, hi)
         IN IF a <= b THEN a ELSE b

RECURSIVE MaxRange(_, _, _)
MaxRange(s, lo, hi) ==
    IF lo = hi THEN s[lo]
    ELSE LET mid == (lo + hi) \div 2
             a == MaxRange(s, lo, mid)
             b == MaxRange(s, mid + 1, hi)
         IN IF a >= b THEN a ELSE b

MinSeq(s) == MinRange(s, 1, Len(s))
MaxSeq(s) == MaxRange(s, 1, Len(s))

(* sorted(set of integers): ascending, without repetition. *)
SortedInts(S) ==
    IF S = {} THEN <<>>
    ELSE LET lo == CHOOSE a \in S : \A b \in S : a <= b
             hi == CHOOSE a \in S : \A b \in S : a >= b
         IN SelectSeq([i \in 1..(hi - lo + 1) |-> lo + i - 1], LAMBDA a : a \in S)

-----------------------------------------------------------------------------
(* The calendar (pandas Timestamp / .dt accessors): proleptic Gregorian.   *)
IsLeapYear(y) == (y % 4 = 0 /\ y % 100 # 0) \/ y % 400 = 0

DaysInMonth(y, m) ==
    IF m = 2 THEN (IF IsLeapYear(y) THEN 29 ELSE 28)
    ELSE IF m \in {4, 6, 9, 11} THEN 30 ELSE 31

CumDays == <<0, 31, 59, 90, 120, 151, 181, 212, 243, 273, 304, 334>>

(* Series.dt.dayofyear *)
DayOfYear(t) == CumDays[t.m] + t.d + (IF IsLeapYear(t.y) /\ t.m > 2 THEN 1 ELSE 0)

Date(y, m, d) == [y |-> y, m |-> m, d |-> d]

(* Order of timestamps. *)
TsKey(t) == t.y * 10000 + t.m * 100 + t.d
TsLeq(a, b) == TsKey(a) <= TsKey(b)

(* timestamp + pd.DateOffset(years = k): same month and day, the day       *)
(* clipped to the length of the month (Feb 29 -> Feb 28).                  *)
AddYearsUnshifted(t, k) == t

AddYears(t, k) ==
    LET y == t.y + k
    IN Date(y, t.m, IF t.d > DaysInMonth(y, t.m) THEN DaysInMonth(y, t.m) ELSE t.d)

-----------------------------------------------------------------------------
(* add_series, year filter (lines 210-213).                                *)
FilterYears(df, year_min, year_max) ==
    SelectSeq(df, LAMBDA r : /\ (year_min # NoneVal => r.t.y >= year_min)
                             /\ (year_max # NoneVal => r.t.y <= year_max))

(* add_series, gap filler (lines 220-246).                                 *)
CalendarYears(df) == {df[i].t.y : i \in 1..Len(df)}

StartDate(df, y) == MinSeq(MapSeq(SelectSeq(df, LAMBDA r : r.t.y = y), LAMBDA r : TsKey(r.t)))
EndDate(df, y) == MaxSeq(MapSeq(SelectSeq(df, LAMBDA r : r.t.y = y), LAMBDA r : TsKey(r.t)))

CompleteYears(df) ==
    {y \in CalendarYears(df) : /\ StartDate(df, y) = TsKey(Date(y, 1, 1))
                               /\ EndDate(df, y) = TsKey(Date(y, 12, 31))}

(* df_complete.join(df): one row per day of the range and per row of df on *)
(* that day (in df's order); a day without a row of df gets a NaN value.   *)
JoinMonth(df, y, m) ==
    LET rows == SelectSeq(df, LAMBDA r : r.t.y = y /\ r.t.m = m)
        day(d) == LET hit == SelectSeq(rows, LAMBDA r : r.t.d = d)
                  IN IF hit = <<>> THEN <<[t |-> Date(y, m, d), v |-> NaN]>> ELSE hit
    IN Flatten([d \in 1..DaysInMonth(y, m) |-> day(d)], 1, DaysInMonth(y, m))

JoinYear(df, y) == Flatten([m \in 1..12 |-> JoinMonth(df, y, m)], 1, 12)

LeftJoinDaily(df, y1, y2) ==
    Flatten([i \in 1..(y2 - y1 + 1) |-> JoinYear(df, y1 + i - 1)], 1, y2 - y1 + 1)

(* DataFrame.interpolate(method='linear'): rows are taken as equally       *)
(* spaced; a NaN after the last valid value repeats it, a NaN before the   *)
(* first valid value stays.                                                *)
InterpolateForwardFill(s) ==
    LET n == Len(s)
        fill(k) == LET before == SelectSeq([i \in 1..n |-> i],
                                           LAMBDA i : i < k /\ ~IsNaN(s[i].v))
                   IN IF before = <<>> THEN NaN ELSE s[before[Len(before)]].v
    IN Materialize([k \in 1..n |-> IF IsNaN(s[k].v) THEN [s[k] EXCEPT !.v = fill(k)] ELSE s[k]])

Interpolate(s) ==
    LET n == Len(s)
        valid == SelectSeq([i \in 1..n |-> i], LAMBDA i : ~IsNaN(s[i].v))
        fill(k) ==
            LET before == SelectSeq(valid, LAMBDA i : i < k)
                after == SelectSeq(valid, LAMBDA i : i > k)
                p == before[Len(before)]
                q == after[1]
            IN IF before = <<>> THEN NaN
               ELSE IF after = <<>> THEN s[p].v
               ELSE QAdd(s[p].v, QMulFrac(QSub(s[q].v, s[p].v), k - p, q - p))
    IN Materialize([k \in 1..n |-> IF IsNaN(s[k].v) THEN [s[k] EXCEPT !.v = fill(k)] ELSE s[k]])

GapFill(df) ==
    LET cy == CompleteYears(df)
    IN IF cy = {} THEN df
       ELSE LET ys == SortedInts(cy)
            IN Interpolate(LeftJoinDaily(df, ys[1], ys[Len(ys)]))

-----------------------------------------------------------------------------
(* add_series, calendar normalizer (lines 248-261).                        *)
AdjustedDoy(t) ==
    IF IsLeapYear(t.y) /\ DayOfYear(t) > 59 THEN DayOfYear(t) - 1 ELSE DayOfYear(t)

WeekNumUnclamped(doy) == ((doy - 1) \div 7) + 1

WeekNum(doy) == LET w == ((doy - 1) \div 7) + 1 IN IF w > 52 THEN 52 ELSE w

NormalizeRow(r) ==
    [t |-> r.t, v |-> r.v, year |-> r.t.y, doy |-> AdjustedDoy(r.t),
     week_num |-> WeekNum(AdjustedDoy(r.t)), month_num |-> r.t.m]

DropFeb29(df) == SelectSeq(df, LAMBDA r : ~(r.t.m = 2 /\ r.t.d = 29))

Normalize(df) == DropFeb29(MapSeq(df, NormalizeRow))


-----------------------------------------------------------------------------
(* add_series, custom start month (lines 264-295).                         *)
days_per_month == <<31, 28, 31, 30, 31, 30, 31, 31, 30, 31, 30, 31>>

WindowStart(df, m) == Date(MinSeq(MapSeq(df, LAMBDA r : r.t.y)), m, 1)
WindowEnd(df, m) == Date(MaxSeq(MapSeq(df, LAMBDA r : r.t.y)), m - 1, days_per_month[m - 1])

Windowed(df, m) ==
    LET start == WindowStart(df, m)
        end == WindowEnd(df, m)
    IN SelectSeq(df, LAMBDA r : TsLeq(start, r.t) /\ TsLeq(r.t, end))

FiscalMonthNum(month, m) == ((month - m) % 12) + 1

FiscalYearShiftBack(year, month, m) == IF month < m THEN year - 1 ELSE year

FiscalYearUniform(year, month, m) == IF month >= m THEN year + 1 ELSE year

FiscalYear(year, month, m) ==
    IF m <= 6 THEN (IF month < m THEN year - 1 ELSE year)
    ELSE (IF month >= m THEN year + 1 ELSE year)

FiscalRowCalendarYear(r, m) == [r EXCEPT !.month_num = FiscalMonthNum(r.t.m, m)]

FiscalRow(r, m) ==
    [r EXCEPT !.month_num = FiscalMonthNum(r.t.m, m),
              !.year = FiscalYear(r.year, r.t.m, m)]

(* sort_values(by=['month_num', 'doy']): a stable lexicographic sort.      *)
SortByMonthDoy(df) ==
    Flatten([k \in 1..12 |->
                SortSeq(SelectSeq(df, LAMBDA r : r.month_num = k),
                        LAMBDA a, b : a.doy < b.doy)], 1, 12)

(* doy = groupby('year').cumcount() + 1 on the sorted rows, week_num from  *)
(* it, then sort_values(by=['year', 'doy']): the rows of each fiscal year, *)
(* years ascending, numbered 1, 2, ... in the sorted order.                *)
RenumberByYear(sorted) ==
    LET ys == SortedInts({sorted[i].year : i \in 1..Len(sorted)})
        block(y) ==
            LET rows == SelectSeq(sorted, LAMBDA r : r.year = y)
            IN [k \in 1..Len(rows) |->
                   [rows[k] EXCEPT !.doy = k, !.week_num = WeekNum(k)]]
    IN Flatten([i \in 1..Len(ys) |-> block(ys[i])], 1, Len(ys))

FiscalShift(df, m) ==
    RenumberByYear(SortByMonthDoy(MapSeq(Windowed(df, m), LAMBDA r : FiscalRow(r, m))))

-----------------------------------------------------------------------------
(* The bucket column of a frequency (lines 330-335, 406-414, 436-441).     *)
BucketCol(f) == IF f = "W" THEN "week_num" ELSE IF f = "ME" THEN "month_num" ELSE "doy"
Bucket(r, col) ==
    IF col = "week_num" THEN r.week_num
    ELSE IF col = "month_num" THEN r.month_num ELSE r.doy

YearsIn(df) == {df[i].year : i \in 1..Len(df)}

(* add_series, resampler (lines 297-320): groupby(['year', bucket]) with   *)
(* 'first' of the other columns and the mean of the value, groups sorted.  *)
ResampleYear(rows, col) ==
    LET bs == SortedInts({Bucket(rows[i], col) : i \in 1..Len(rows)})
        group(b) ==
            LET g == SelectSeq(rows, LAMBDA r : Bucket(r, col) = b)
            IN [g[1] EXCEPT !.v = MeanQ(MapSeq(g, LAMBDA r : r.v))]
    IN Materialize([i \in 1..Len(bs) |-> group(bs[i])])

Resample(df, f) ==
    IF f \in {"W", "ME"}
    THEN LET ys == SortedInts(YearsIn(df))
         IN Flatten([i \in 1..Len(ys) |->
                        ResampleYear(SelectSeq(df, LAMBDA r : r.year = ys[i]), BucketCol(f))],
                    1, Len(ys))
    ELSE df

-----------------------------------------------------------------------------
(* add_series, cumulative transform (lines 326-337).  Each row gets the    *)
(* running sum at its place in its year's rows sorted by the bucket        *)
(* column; sort_values sorts one column with quicksort, which leaves the   *)
(* order of equal buckets open: tie is the order it happens to produce.    *)
BeforeStrict(df, i, j, col, tie) == Bucket(df[j], col) < Bucket(df[i], col)

Before(df, i, j, col, tie) ==
    \/ Bucket(df[j], col) < Bucket(df[i], col)
    \/ /\ Bucket(df[j], col) = Bucket(df[i], col)
       /\ IF tie = "first" THEN j <= i ELSE j >= i

CumSumRow(df, i, col, tie) ==
    LET idx == SelectSeq([j \in 1..Len(df) |-> j],
                         LAMBDA j : df[j].year = df[i].year /\ Before(df, i, j, col, tie))
    IN [df[i] EXCEPT !.v = SumQ(MapSeq(idx, LAMBDA j : df[j].v))]

Cumulate(df, f, tie) ==
    Materialize([i \in 1..Len(df) |-> CumSumRow(df, i, BucketCol(f), tie)])

-----------------------------------------------------------------------------
(* add_series, rolling multi-year averager (lines 339-388).                *)
RollStartsEveryYear(df, W) == SortedInts(YearsIn(df))

RollStarts(df, W) ==
    LET unique_years == SortedInts(YearsIn(df))
        max_start_year == unique_years[Len(unique_years) - W + 1]
    IN SelectSeq(unique_years, LAMBDA y : y <= max_start_year)

RollBlockInclusive(df, start_year, W) ==
    SelectSeq(df, LAMBDA r : r.year >= start_year /\ r.year <= start_year + W)

RollBlock(df, start_year, W) ==
    SelectSeq(df, LAMBDA r : r.year >= start_year /\ r.year < start_year + W)

RollWindow(df, start_year, W, f) ==
    LET block_df == RollBlock(df, start_year, W)
        col == BucketCol(f)
        bs == SortedInts({Bucket(block_df[i], col) : i \in 1..Len(block_df)})
        avg(b) ==
            LET g == SelectSeq(block_df, LAMBDA r : Bucket(r, col) = b)
            IN [t |-> g[1].t, v |-> MeanQ(MapSeq(g, LAMBDA r : r.v)),
                year |-> start_year,
                doy |-> IF col = "doy" THEN b ELSE NoneVal,
                week_num |-> IF col = "week_num" THEN b ELSE NoneVal,
                month_num |-> IF col = "month_num" THEN b ELSE NoneVal]
    IN Materialize([i \in 1..Len(bs) |-> avg(bs[i])])

Rolling(df, W, f) ==
    LET starts == RollStarts(df, W)
    IN Flatten([i \in 1..Len(starts) |-> RollWindow(df, starts[i], W, f)], 1, Len(starts))

-----------------------------------------------------------------------------
(* Legends and titles: a formatted string is kept as the tuple of the      *)
(* values formatted into it.                                               *)
NoneStr == "None"
y_data_name == "v"

LegendName(text) == [kind |-> "name", text |-> text, from |-> NoneVal, to |-> NoneVal]
LegendYear(y) == [kind |-> "year", text |-> "Year", from |-> y, to |-> y]
LegendWindow(y, W) == [kind |-> "window", text |-> "-", from |-> y, to |-> y + W - 1]

NoTitle ==
    [kind |-> "none", mode |-> "", of |-> "", x_range |-> <<>>,
     focus |-> NoneVal, cumul |-> FALSE, rolling |-> NoneVal]
UserTitle == [NoTitle EXCEPT !.kind = "user"]

(* _generate_auto_title (lines 599-627). *)
GenerateAutoTitle(e) ==
    [kind |-> "auto",
     mode |-> e.mode,
     of |-> IF e.legend_name \notin {"unset", NoneStr, ""} THEN e.legend_name
            ELSE IF e.var_col \notin {"unset", NoneStr, ""} THEN e.var_col
            ELSE "",
     x_range |-> IF Len(e.x_range) = 2 THEN e.x_range ELSE <<>>,
     focus |-> e.focus_year,
     cumul |-> e.cumul,
     rolling |-> IF e.rolling_window \in {NoneVal, Unset} THEN NoneVal ELSE e.rolling_window]

-----------------------------------------------------------------------------
(* add_series, mode projector (lines 390-498).                             *)
Entry(df, time_col, legend, f, W, kind) ==
    [df |-> df, time_col |-> time_col, var_col |-> y_data_name, legend_name |-> legend,
     freq |-> f, rolling_window |-> W,
     is_annual_cycle |-> kind = "annual_cycle", is_statistics |-> kind = "statistics"]

LegendOr(legend) == LegendName(IF legend \in {NoneStr, ""} THEN y_data_name ELSE legend)

HistoricalEntries(df, legend, f, W) ==
    << Entry(df, "time", LegendOr(legend), f, W, "historical") >>

(* groupby(['year', x_col])[value].mean().reset_index() *)
GroupMeanYear(rows, col) ==
    LET bs == SortedInts({Bucket(rows[i], col) : i \in 1..Len(rows)})
        group(b) ==
            LET g == SelectSeq(rows, LAMBDA r : Bucket(r, col) = b)
            IN [year |-> g[1].year, x |-> b, v |-> MeanQ(MapSeq(g, LAMBDA r : r.v))]
    IN Materialize([i \in 1..Len(bs) |-> group(bs[i])])

AnnualCycleEntries(df, f, W) ==
    LET ys == SortedInts(YearsIn(df))
        entry(y) ==
            Entry(GroupMeanYear(SelectSeq(df, LAMBDA r : r.year = y), BucketCol(f)),
                  BucketCol(f),
                  IF W # NoneVal THEN LegendWindow(y, W) ELSE LegendYear(y),
                  f, W, "annual_cycle")
    IN Materialize([i \in 1..Len(ys) |-> entry(ys[i])])

(* Series.quantile(q), q = pct / 100: linear interpolation between the     *)
(* order statistics around position q * (n - 1).                           *)
QuantileBackward(sorted, pct) ==
    LET pos == pct * (Len(sorted) - 1)
        lo == (pos \div 100) + 1
        frac == pos % 100
    IN IF frac = 0 THEN sorted[lo]
       ELSE QSub(sorted[lo], QMulFrac(QSub(sorted[lo + 1], sorted[lo]), frac, 100))

Quantile(sorted, pct) ==
    LET pos == pct * (Len(sorted) - 1)
        lo == (pos \div 100) + 1
        frac == pos % 100
    IN IF frac = 0 THEN sorted[lo]
       ELSE QAdd(sorted[lo], QMulFrac(QSub(sorted[lo + 1], sorted[lo]), frac, 100))

StatsRow(stats_part, focus_part, col, b) ==
    LET g == SelectSeq(stats_part, LAMBDA r : Bucket(r, col) = b)
        vals == MapSeq(g, LAMBDA r : r.v)
        sorted == SortSeq(vals, LAMBDA p, q : QLt(p, q))
        fg == SelectSeq(focus_part, LAMBDA r : Bucket(r, col) = b)
    IN [x_value |-> b,
        min |-> Quantile(sorted, 0), q01 |-> Quantile(sorted, 1),
        q05 |-> Quantile(sorted, 5), q10 |-> Quantile(sorted, 10),
        q25 |-> Quantile(sorted, 25), q75 |-> Quantile(sorted, 75),
        q90 |-> Quantile(sorted, 90), q95 |-> Quantile(sorted, 95),
        q99 |-> Quantile(sorted, 99), max |-> Quantile(sorted, 100),
        mean |-> MeanQ(vals), median |-> Quantile(sorted, 50),
        t |-> g[1].t,
        focus |-> IF fg = <<>> THEN NaN ELSE MeanQ(MapSeq(fg, LAMBDA r : r.v))]

StatsPartEveryYear(df, focus) == df

StatsPart(df, focus) == SelectSeq(df, LAMBDA r : r.year # focus)
FocusPart(df, focus) == SelectSeq(df, LAMBDA r : r.year = focus)

StatisticsTable(df, f, focus) ==
    LET col == BucketCol(f)
        df_stats_part == StatsPart(df, focus)
        df_focus_part == FocusPart(df, focus)
        bs == SortedInts({Bucket(df_stats_part[i], col) : i \in 1..Len(df_stats_part)})
    IN Materialize([i \in 1..Len(bs) |-> StatsRow(df_stats_part, df_focus_part, col, bs[i])])

StatisticsEntries(df, legend, f, focus) ==
    << Entry(StatisticsTable(df, f, focus), "x_value", LegendOr(legend), f, NoneVal,
             "statistics") >>

-----------------------------------------------------------------------------
(* The engine object as a record of its attributes.                        *)
Self ==
    [mode |-> mode, focus_year |-> focus_year, start_month |-> start_month,
     cumul |-> cumul, title |-> title, x_range |-> x_range,
     series_list |-> series_list, line_list |-> line_list,
     rectangle_list |-> rectangle_list, freq |-> freq, legend_name |-> legend_name,
     rolling_window |-> rolling_window, var_col |-> var_col]

(* __init__ (lines 125-147), in the order of its statements. *)
InitStartMonth(a) ==
    IF a.start_month # NoneVal /\ a.start_month > 1 THEN a.start_month ELSE NoneVal

InitCumul(a) == IF a.cumul /\ a.mode = "historical" THEN FALSE ELSE a.cumul

InitMode(a) ==
    IF a.mode = "statistics" /\ a.focus_year = NoneVal THEN "historical" ELSE a.mode

InitWarnings(a) ==
    (IF a.cumul /\ a.mode = "historical" THEN {"cumul_ignored"} ELSE {})
    \cup (IF a.mode = "statistics" /\ a.focus_year = NoneVal
          THEN {"statistics_downgraded"} ELSE {})

Construct(a) ==
    [mode |-> InitMode(a), focus_year |-> a.focus_year,
     start_month |-> InitStartMonth(a), cumul |-> InitCumul(a),
     title |-> a.title, x_range |-> a.x_range,
     series_list |-> <<>>, line_list |-> <<>>, rectangle_list |-> <<>>,
     freq |-> "unset", legend_name |-> "unset", rolling_window |-> Unset,
     var_col |-> "unset"]

-----------------------------------------------------------------------------
(* add_series (lines 199-502): the stages of one call, each computed from  *)
(* the one before, and the exception that ends the call, if any.           *)
EffectiveWindow(e, a) ==
    IF e.mode = "statistics" /\ a.rolling_window # NoneVal THEN NoneVal
    ELSE a.rolling_window

StageShift(e, norm) ==
    IF e.start_month # NoneVal THEN FiscalShift(norm, e.start_month) ELSE norm

StageCumulSkipped(e, a, df) == df

StageCumul(e, a, df) ==
    IF e.cumul /\ e.mode \in {"annual_cycle", "statistics"}
    THEN Cumulate(df, a.freq, a.tie) ELSE df

StageRolling(e, a, df) ==
    IF EffectiveWindow(e, a) # NoneVal
    THEN Rolling(df, EffectiveWindow(e, a), a.freq) ELSE df

StageEntries(e, a, df) ==
    IF e.mode = "historical"
    THEN HistoricalEntries(df, a.legend_name, a.freq, EffectiveWindow(e, a))
    ELSE IF e.mode = "annual_cycle"
    THEN AnnualCycleEntries(df, a.freq, EffectiveWindow(e, a))
    ELSE StatisticsEntries(df, a.legend_name, a.freq, e.focus_year)

Stages(e, a) ==
    LET W == EffectiveWindow(e, a)
        filtered == FilterYears(a.df, a.year_min, a.year_max)
        filled == GapFill(filtered)
        base == Normalize(filled)
        err1 == IF e.start_month # NoneVal /\ base = <<>> THEN "ValueError" ELSE "none"
        norm == IF err1 # "none" THEN <<>> ELSE StageShift(e, base)
        resampled == Resample(norm, a.freq)
        cum == StageCumul(e, a, resampled)
        err2 == IF err1 # "none" THEN err1
                ELSE IF W = NoneVal THEN "none"
                ELSE IF W > Cardinality(YearsIn(cum)) THEN "IndexError"
                ELSE IF a.freq \notin {"D", "W", "ME"} THEN "UnboundLocalError"
                ELSE "none"
        rolled == IF err2 # "none" THEN <<>> ELSE StageRolling(e, a, cum)
        err3 == IF err2 # "none" THEN err2
                ELSE IF e.mode = "statistics" /\ StatsPart(rolled, e.focus_year) = <<>>
                THEN "ValueError"
                ELSE "none"
        entries == IF err3 # "none" THEN <<>> ELSE StageEntries(e, a, rolled)
    IN [called |-> TRUE, args |-> a, filtered |-> filtered, filled |-> filled,
        base |-> base, norm |-> norm, resampled |-> resampled, cum |-> cum,
        rolled |-> rolled, entries |-> entries, err |-> err3]

AddSeriesWarnings(e, a) ==
    IF e.mode = "statistics" /\ a.rolling_window # NoneVal THEN {"rolling_ignored"} ELSE {}

add_seriesReplacing(e, a, st) ==
    LET e1 == [e EXCEPT !.freq = a.freq, !.legend_name = a.legend_name,
                        !.rolling_window = EffectiveWindow(e, a)]
        e2 == [e1 EXCEPT !.series_list = st.entries]
    IN IF st.err # "none" THEN e1
       ELSE IF e2.title.kind = "none" THEN [e2 EXCEPT !.title = GenerateAutoTitle(e2)]
       ELSE e2

add_seriesClearingOnError(e, a, st) ==
    LET e1 == [e EXCEPT !.freq = a.freq, !.legend_name = a.legend_name,
                        !.rolling_window = EffectiveWindow(e, a)]
        e2 == [e1 EXCEPT !.series_list = e.series_list \o st.entries]
    IN IF st.err # "none" THEN [e1 EXCEPT !.series_list = <<>>]
       ELSE IF e2.title.kind = "none" THEN [e2 EXCEPT !.title = GenerateAutoTitle(e2)]
       ELSE e2

(* The engine after the call whose stages are st. *)
add_series(e, a, st) ==
    LET e1 == [e EXCEPT !.freq = a.freq, !.legend_name = a.legend_name,
                        !.rolling_window = EffectiveWindow(e, a)]
        e2 == [e1 EXCEPT !.series_list = e.series_list \o st.entries]
    IN IF st.err # "none" THEN e1
       ELSE IF e2.title.kind = "none" THEN [e2 EXCEPT !.title = GenerateAutoTitle(e2)]
       ELSE e2

(* add_line (lines 659-666) and add_rectangle (lines 704-713). *)
add_line(e, ln) == [e EXCEPT !.line_list = Append(e.line_list, ln)]
add_rectangle(e, rc) == [e EXCEPT !.rectangle_list = Append(e.rectangle_list, rc)]

-----------------------------------------------------------------------------
(* Month ticks (lines 715-815): tick positions and labels, a label kept as *)
(* the number of its month.                                                *)
RECURSIVE SumInts(_, _, _)
SumInts(f, lo, hi) == IF lo > hi THEN 0 ELSE f[lo] + SumInts(f, lo + 1, hi)

standard_month_starts == <<1, 32, 60, 91, 121, 152, 182, 213, 244, 274, 305, 335>>
standard_week_starts == <<1, 6, 10, 14, 18, 22, 26, 30, 35, 39, 43, 48>>
weeks_per_month == <<5, 4, 4, 4, 4, 4, 4, 5, 4, 4, 5, 5>>

ShiftedLabels(m) == [i \in 1..12 |-> ((i + m - 2) % 12) + 1]

(* shifted_starts: entry i (from 0) is 1 + the lengths of the months       *)
(* (adjusted_month_idx - 1) % 12 for the entries 1..i.                     *)
ShiftedStarts(per_month, m) ==
    [i \in 1..12 |->
        1 + SumInts([k \in 1..11 |-> per_month[((k + m - 2) % 12) + 1]], 1, i - 1)]

MonthTicks(e, f) ==
    IF e.start_month = NoneVal \/ e.start_month = 1
    THEN [ticks |-> IF f = "W" THEN standard_week_starts
                    ELSE IF f = "ME" THEN [i \in 1..12 |-> i]
                    ELSE standard_month_starts,
          labels |-> [i \in 1..12 |-> i]]
    ELSE [ticks |-> IF f = "W" THEN ShiftedStarts(weeks_per_month, e.start_month)
                    ELSE IF f = "ME" THEN [i \in 1..12 |-> i]
                    ELSE ShiftedStarts(days_per_month, e.start_month),
          labels |-> ShiftedLabels(e.start_month)]

MaxX(f) == IF f = "W" THEN 52 ELSE IF f = "ME" THEN 12 ELSE 365

BucketAxis(e) ==
    [type |-> "bucket", lo |-> 1, hi |-> MaxX(e.freq),
     ticks |-> MonthTicks(e, e.freq).ticks, labels |-> MonthTicks(e, e.freq).labels]

-----------------------------------------------------------------------------
(* create_figure (lines 837-1137).                                         *)
Trace(kind, name, x, y, year) ==
    [kind |-> kind, name |-> name, x |-> x, y |-> y, year |-> year]

(* Series.unique(): the distinct values in order of first appearance. *)
UniqueInOrder(s) ==
    LET first(y) == MinSeq(SelectSeq([i \in 1..Len(s) |-> i], LAMBDA i : s[i] = y))
    IN SortSeq(SortedInts(Range(s)), LAMBDA a, b : first(a) < first(b))

HistoricalTraces(e, series) ==
    LET df == series.df
        main == Trace("main", series.legend_name, MapSeq(df, LAMBDA r : r.t),
                      MapSeq(df, LAMBDA r : r.v), NoneVal)
        df_focus == SelectSeq(df, LAMBDA r : r.t.y = e.focus_year)
        all_years == UniqueInOrder(MapSeq(df, LAMBDA r : r.t.y))
        unique_years == SelectSeq(all_years, LAMBDA y : y # e.focus_year)
        overlay(year) ==
            Trace("overlay", LegendYear(e.focus_year),
                  MapSeq(df_focus, LAMBDA r : AddYears(r.t, year - e.focus_year)),
                  MapSeq(df_focus, LAMBDA r : r.v), year)
        highlight == Trace("focus", LegendYear(e.focus_year),
                           MapSeq(df_focus, LAMBDA r : r.t),
                           MapSeq(df_focus, LAMBDA r : r.v), e.focus_year)
    IN IF e.focus_year = NoneVal \/ df_focus = <<>> THEN <<main>>
       ELSE <<main>> \o [i \in 1..Len(unique_years) |-> overlay(unique_years[i])]
                     \o <<highlight>>

AnnualTrace(series) ==
    Trace("annual", series.legend_name, MapSeq(series.df, LAMBDA r : r.x),
          MapSeq(series.df, LAMBDA r : r.v), NoneVal)

StatColumns ==
    <<"min", "max", "q25", "q75", "q10", "q90", "q05", "q95", "q01", "q99",
      "median", "mean", "focus">>

StatisticsTraces(series) ==
    LET df == series.df
    IN [i \in 1..Len(StatColumns) |->
           Trace("stat", LegendName(StatColumns[i]), MapSeq(df, LAMBDA r : r.x_value),
                 MapSeq(df, LAMBDA r : r[StatColumns[i]]), NoneVal)]

Shapes(e) ==
    SelectSeq(e.line_list, LAMBDA ln : ln.orientation \in {"v", "h"})
    \o SelectSeq(e.rectangle_list, LAMBDA rc : rc.orientation \in {"v", "h"})

NoFigure ==
    [called |-> FALSE, err |-> "none", traces |-> <<>>, shapes |-> <<>>,
     xaxis |-> [type |-> "none", lo |-> 0, hi |-> 0, ticks |-> <<>>, labels |-> <<>>],
     title |-> NoTitle]

Figure(e, traces, xaxis, shapes) ==
    [called |-> TRUE, err |-> "none", traces |-> traces, shapes |-> shapes,
     xaxis |-> xaxis, title |-> e.title]

FailedFigure(err) == [NoFigure EXCEPT !.called = TRUE, !.err = err]

CreateHistorical(e) ==
    LET n == Len(e.series_list)
        df == e.series_list[n].df
        times == MapSeq(df, LAMBDA r : TsKey(r.t))
    IN IF n = 0 THEN FailedFigure("UnboundLocalError")
       ELSE IF df = <<>> THEN FailedFigure("ValueError")
       ELSE Figure(e,
                   Flatten([i \in 1..n |-> HistoricalTraces(e, e.series_list[i])], 1, n),
                   [type |-> "date", lo |-> MinSeq(times) \div 10000,
                    hi |-> MaxSeq(times) \div 10000, ticks |-> <<>>, labels |-> <<>>],
                   Shapes(e))

CreateAnnualCycle(e) ==
    IF e.freq = "unset" THEN FailedFigure("AttributeError")
    ELSE Figure(e, [i \in 1..Len(e.series_list) |-> AnnualTrace(e.series_list[i])],
                BucketAxis(e), Shapes(e))

CreateStatistics(e) ==
    IF e.series_list = <<>> THEN Figure(e, <<>>, NoFigure.xaxis, <<>>)
    ELSE Figure(e, StatisticsTraces(e.series_list[1]), BucketAxis(e), Shapes(e))

FigureOf(e) ==
    IF e.mode = "historical" THEN CreateHistorical(e)
    ELSE IF e.mode = "annual_cycle" THEN CreateAnnualCycle(e)
    ELSE CreateStatistics(e)

create_figureResolving(e) ==
    IF e.mode = "statistics" /\ e.series_list = <<>>
    THEN [e EXCEPT !.mode = "historical"]
    ELSE IF e.mode = "historical" /\ e.series_list # <<>>
    THEN [e EXCEPT !.var_col = e.series_list[Len(e.series_list)].var_col]
    ELSE e

(* The engine after create_figure: the historical branch stores var_col. *)
create_figure(e) ==
    IF e.mode = "historical" /\ e.series_list # <<>>
    THEN [e EXCEPT !.var_col = e.series_list[Len(e.series_list)].var_col]
    ELSE e

CreateFigureWarnings(e) ==
    IF e.mode = "statistics" /\ e.series_list = <<>> THEN {"no_series"} ELSE {}

-----------------------------------------------------------------------------
(* Inputs.  Sparse series: a few sample days per calendar year.            *)
SampleDays == << <<1, 15>>, <<1, 20>>, <<10, 5>> >>

SampleValue(y, k) == ((y + 1) % 4) * 2 + k

SparseYear(y, pattern) ==
    LET all == [k \in 1..Len(SampleDays) |->
                   [t |-> Date(y, SampleDays[k][1], SampleDays[k][2]),
                    v |-> QInt(SampleValue(y, k))]]
    IN IF pattern = "alt" /\ y % 2 = 1 THEN SubSeq(all, 2, Len(all)) ELSE all

Reverse(s) == [i \in 1..Len(s) |-> s[Len(s) + 1 - i]]

(* variant: "asc" chronological, "desc" reversed, "dup" chronological with *)
(* a second row, given last, on the day of the middle row of the series.   *)
SparseSeries(ys, pattern, variant) ==
    LET years == SortedInts(ys)
        asc == Flatten([i \in 1..Len(years) |-> SparseYear(years[i], pattern)],
                       1, Len(years))
    IN IF variant = "desc" THEN Materialize(Reverse(asc))
       ELSE IF variant = "dup"
       THEN LET mid == asc[(Len(asc) + 1) \div 2]
            IN Append(asc, [mid EXCEPT !.v = QAdd(mid.v, QInt(4))])
       ELSE asc

YearSets == {2015..(2014 + n) : n \in 1..MaxYears} \cup {{2015, 2016, 2018, 2019}}

Decade == [i \in 1..11 |-> [t |-> Date(1999 + i, 1, 15), v |-> QInt(i % 3)]]

SparseInputs ==
    {SparseSeries(ys, p, o) : ys \in YearSets, p \in {"full", "alt"},
                              o \in {"asc", "desc", "dup"}}
    \cup {Decade}

Frequencies == {NoneStr, "D", "W", "ME"}
WindowSizes == {NoneVal, 2, 3, 5}
YearFilters == {<<NoneVal, NoneVal>>, <<2016, 2018>>}

TieChoices(e, f) ==
    IF e.cumul /\ e.mode \in {"annual_cycle", "statistics"} /\ f \notin {"W", "ME"}
    THEN {"first", "last"} ELSE {"first"}

SeriesArgs(df, legend, yf, f, W, tie) ==
    [df |-> df, legend_name |-> legend, year_min |-> yf[1], year_max |-> yf[2],
     freq |-> f, rolling_window |-> W, tie |-> tie]

CtorArgs(m, fy, sm, c, t) ==
    [mode |-> m, focus_year |-> fy, start_month |-> sm, cumul |-> c,
     title |-> t, x_range |-> <<2015, 2018>>]

Modes == {"historical", "annual_cycle", "statistics"}

-----------------------------------------------------------------------------
(* Actions.                                                                *)
NoCall ==
    [called |-> FALSE, args |-> SeriesArgs(<<>>, NoneStr, <<NoneVal, NoneVal>>,
                                           NoneStr, NoneVal, "first"),
     filtered |-> <<>>, filled |-> <<>>, base |-> <<>>, norm |-> <<>>,
     resampled |-> <<>>, cum |-> <<>>, rolled |-> <<>>, entries |-> <<>>,
     err |-> "none"]

SetSelf(e) ==
    /\ mode' = e.mode
    /\ focus_year' = e.focus_year
    /\ start_month' = e.start_month
    /\ cumul' = e.cumul
    /\ title' = e.title
    /\ x_range' = e.x_range
    /\ series_list' = e.series_list
    /\ line_list' = e.line_list
    /\ rectangle_list' = e.rectangle_list
    /\ freq' = e.freq
    /\ legend_name' = e.legend_name
    /\ rolling_window' = e.rolling_window
    /\ var_col' = e.var_col

IsSelf(e) ==
    /\ mode = e.mode
    /\ focus_year = e.focus_year
    /\ start_month = e.start_month
    /\ cumul = e.cumul
    /\ title = e.title
    /\ x_range = e.x_range
    /\ series_list = e.series_list
    /\ line_list = e.line_list
    /\ rectangle_list = e.rectangle_list
    /\ freq = e.freq
    /\ legend_name = e.legend_name
    /\ rolling_window = e.rolling_window
    /\ var_col = e.var_col

HistoricalTwin(a) ==
    IF a.mode = "statistics" /\ a.focus_year = NoneVal
    THEN [a EXCEPT !.mode = "historical"] ELSE a

New(a) ==
    /\ IsSelf(Construct(a))
    /\ ctor = a
    /\ warnings = InitWarnings(a)
    /\ last = NoCall
    /\ fig = NoFigure
    /\ ncalls = 0
    /\ twin = [self |-> Construct(HistoricalTwin(a)), err |-> "none", fig |-> NoFigure]

AddSeries(a) ==
    /\ last' = Stages(Self, a)
    /\ SetSelf(add_series(Self, a, last'))
    /\ warnings' = warnings \cup AddSeriesWarnings(Self, a)
    /\ ncalls' = ncalls + 1
    /\ twin' = IF twin.self = Self
               THEN [twin EXCEPT !.self = add_series(Self, a, last'), !.err = last'.err]
               ELSE LET st == Stages(twin.self, a)
                    IN [twin EXCEPT !.self = add_series(twin.self, a, st), !.err = st.err]
    /\ UNCHANGED <<ctor, fig>>

AddLine(ln) ==
    /\ Len(line_list) < MaxLines
    /\ SetSelf(add_line(Self, ln))
    /\ twin' = [twin EXCEPT !.self = add_line(twin.self, ln)]
    /\ UNCHANGED <<ctor, warnings, last, fig, ncalls>>

AddRectangle(rc) ==
    /\ Len(rectangle_list) < MaxLines
    /\ SetSelf(add_rectangle(Self, rc))
    /\ twin' = [twin EXCEPT !.self = add_rectangle(twin.self, rc)]
    /\ UNCHANGED <<ctor, warnings, last, fig, ncalls>>

CreateFigure ==
    /\ fig' = FigureOf(Self)
    /\ SetSelf(create_figure(Self))
    /\ warnings' = warnings \cup CreateFigureWarnings(Self)
    /\ twin' = [twin EXCEPT !.fig = FigureOf(twin.self), !.self = create_figure(twin.self)]
    /\ UNCHANGED <<ctor, last, ncalls>>

-----------------------------------------------------------------------------
(* Dense series: every day of the calendar years y1..y2.                   *)
DenseValue(t) == (t.d % 5) + t.m

DenseMonth(y, m) ==
    [d \in 1..DaysInMonth(y, m) |-> [t |-> Date(y, m, d), v |-> QInt(DenseValue(Date(y, m, d)))]]

DenseYear(y) == Flatten([m \in 1..12 |-> DenseMonth(y, m)], 1, 12)

(* variant: "asc", "desc" (reversed), "dup" (a second row on 15 January of *)
(* the last year, given last), "gap" (no row on 10 March of the first      *)
(* year), "tail" (three more rows, on the first days of the next year).    *)
DenseSeries(y1, y2, variant) ==
    LET asc == Flatten([i \in 1..(y2 - y1 + 1) |-> DenseYear(y1 + i - 1)], 1, y2 - y1 + 1)
    IN IF variant = "desc" THEN Materialize(Reverse(asc))
       ELSE IF variant = "dup"
       THEN Append(asc, [t |-> Date(y2, 1, 15), v |-> QInt(9)])
       ELSE IF variant = "gap"
       THEN SelectSeq(asc, LAMBDA r : r.t # Date(y1, 3, 10))
       ELSE IF variant = "tail"
       THEN asc \o SubSeq(DenseMonth(y2 + 1, 1), 1, 3)
       ELSE asc

DenseSpans == {<<2016, 2016>>, <<2017, 2017>>, <<2015, 2016>>, <<2016, 2017>>}

DenseInputs ==
    {DenseSeries(sp[1], sp[2], o) : sp \in DenseSpans,
                                    o \in {"asc", "desc", "dup", "gap", "tail"}}

LineArgs ==
    {[orientation |-> o, position |-> 10, line_dash |-> "dash", col |-> "all",
      color |-> "red", label |-> "max"] : o \in {"h"}}

RectangleArgs ==
    {[orientation |-> o, x0 |-> 1, x1 |-> 2, y0 |-> 1, y1 |-> 2, color |-> "black",
      opacity |-> 2, label |-> ""] : o \in {"v"}}

-----------------------------------------------------------------------------
(* Spec: the life cycle of an engine -- construction, then add_series,     *)
(* add_line, add_rectangle and create_figure in any order.                 *)
LifeInputs == {SparseSeries({2016, 2017}, "full", "asc"), SparseSeries({2016}, "alt", "desc")}

Init ==
    \E m \in Modes, fy \in {NoneVal, 2016}, sm \in {NoneVal, 10}, c \in BOOLEAN,
       t \in {NoTitle, UserTitle} :
        New(CtorArgs(m, fy, sm, c, t))

LifeAddSeries ==
    /\ ncalls < MaxCalls
    /\ \E df \in LifeInputs, f \in {"D", "W"}, W \in {NoneVal, 2} :
          AddSeries(SeriesArgs(df, "L", <<NoneVal, NoneVal>>, f, W, "first"))

LifeAddLine == \E ln \in LineArgs : AddLine(ln)

LifeAddRectangle == \E rc \in RectangleArgs : AddRectangle(rc)

Next == LifeAddSeries \/ LifeAddLine \/ LifeAddRectangle \/ CreateFigure

Spec == Init /\ [][Next]_vars

(* SpecPipe: one add_series call on a fresh engine, over the sparse        *)
(* inputs, then create_figure.                                             *)
InitPipe ==
    \E m \in Modes, fy \in {NoneVal, 2016}, sm \in {NoneVal, 4, 10}, c \in BOOLEAN :
        New(CtorArgs(m, fy, sm, c, NoTitle))

PipeAddSeries ==
    /\ ncalls = 0
    /\ \E df \in SparseInputs, yf \in YearFilters, f \in Frequencies, W \in WindowSizes :
          \E tie \in TieChoices(Self, f) :
              AddSeries(SeriesArgs(df, "L", yf, f, W, tie))

NextPipe == PipeAddSeries \/ CreateFigure

SpecPipe == InitPipe /\ [][NextPipe]_vars

(* SpecCal: one add_series call on a fresh engine, over the dense inputs   *)
(* and every start month.                                                  *)
InitCal ==
    \E sm \in 0..12 : New(CtorArgs("annual_cycle", NoneVal, sm, FALSE, NoTitle))

(* The dense inputs, a dense series of three years and a sparse one of     *)
(* four: series that span several fiscal years under a custom start month. *)
CalInputs ==
    DenseInputs \cup {DenseSeries(2015, 2017, "asc"),
                      SparseSeries(2015..2018, "full", "desc")}

CalAddSeries ==
    /\ ncalls = 0
    /\ \E df \in CalInputs :
          AddSeries(SeriesArgs(df, "L", <<NoneVal, NoneVal>>, "D", NoneVal, "first"))

NextCal == CalAddSeries

SpecCal == InitCal /\ [][NextCal]_vars

(* SpecStats: one add_series call on a fresh statistics engine, over the   *)
(* sparse inputs and focus years with all, some or none of the sample      *)
(* days, then create_figure.                                               *)
StatsFocusYears == {2016, 2017, 2020}

InitStats ==
    \E fy \in StatsFocusYears, sm \in {NoneVal, 10}, c \in BOOLEAN :
        New(CtorArgs("statistics", fy, sm, c, NoTitle))

StatsAddSeries ==
    /\ ncalls = 0
    /\ \E df \in SparseInputs, f \in Frequencies, W \in {NoneVal, 2} :
          \E tie \in TieChoices(Self, f) :
              AddSeries(SeriesArgs(df, "L", <<NoneVal, NoneVal>>, f, W, tie))

NextStats == StatsAddSeries \/ CreateFigure

SpecStats == InitStats /\ [][NextStats]_vars

(* SpecFocus: one add_series call on a fresh statistics engine, over the   *)
(* sparse inputs and a series whose first and last year have a row on      *)
(* January 1 and on December 31 (complete years for the gap filler) around *)
(* a year with rows on either side of October 1 and on December 30, then   *)
(* create_figure.                                                          *)
BracketedSeries ==
    << [t |-> Date(2015, 1, 1), v |-> QInt(2)], [t |-> Date(2015, 12, 31), v |-> QInt(2)],
       [t |-> Date(2016, 9, 29), v |-> QInt(2)], [t |-> Date(2016, 10, 1), v |-> QInt(2)],
       [t |-> Date(2016, 12, 30), v |-> QInt(2)],
       [t |-> Date(2017, 1, 1), v |-> QInt(4)], [t |-> Date(2017, 12, 31), v |-> QInt(4)] >>

FocusInputs == SparseInputs \cup {BracketedSeries}

InitFocus ==
    \E fy \in {2016, 2017}, sm \in {NoneVal, 10}, c \in BOOLEAN :
        New(CtorArgs("statistics", fy, sm, c, NoTitle))

FocusAddSeries ==
    /\ ncalls = 0
    /\ \E df \in FocusInputs, f \in Frequencies :
          \E tie \in TieChoices(Self, f) :
              AddSeries(SeriesArgs(df, "L", <<NoneVal, NoneVal>>, f, NoneVal, tie))

NextFocus == FocusAddSeries \/ CreateFigure

SpecFocus == InitFocus /\ [][NextFocus]_vars

-----------------------------------------------------------------------------
(* Vocabulary of the properties.  A fiscal year is a 12-month span from    *)
(* the 1st of the start month (January when none is set); it is named      *)
(* here by the calendar year in which it starts.                           *)
Done == last.called /\ last.err = "none"

EffStartMonth == IF start_month = NoneVal THEN 1 ELSE start_month

SpanOf(t) == IF t.m >= EffStartMonth THEN t.y ELSE t.y - 1

(* The days of the span starting in year s, February 29 left out. *)
SpanDays(s) ==
    UNION {LET mm == ((EffStartMonth - 1 + k) % 12) + 1
               yy == s + ((EffStartMonth - 1 + k) \div 12)
           IN {TsKey(Date(yy, mm, d)) : d \in 1..days_per_month[mm]} : k \in 0..11}

SpanHasLeapDay(s) ==
    \E k \in 0..11 : /\ ((EffStartMonth - 1 + k) % 12) + 1 = 2
                     /\ IsLeapYear(s + ((EffStartMonth - 1 + k) \div 12))

InputDays == {TsKey(last.args.df[i].t) : i \in 1..Len(last.args.df)}

(* The spans all of whose days are present in the input. *)
CompleteSpans ==
    {s \in {SpanOf(last.args.df[i].t) : i \in 1..Len(last.args.df)} :
        SpanDays(s) \subseteq InputDays}

NormRowsOf(s) == SelectSeq(last.norm, LAMBDA r : SpanOf(r.t) = s)
DoysOf(s) == {r.doy : r \in Range(NormRowsOf(s))}
HasDuplicateDay(df) == \E i, j \in 1..Len(df) : i # j /\ df[i].t = df[j].t

(* C1: for every fiscal year whose days are all present in the input, the  *)
(* normalized rows of that year carry exactly the day_of_year values       *)
(* 1..365, and no normalized row is dated February 29.                     *)
C1_LeapYearInvariant ==
    Done =>
        /\ \A s \in CompleteSpans : DoysOf(s) = 1..365
        /\ \A r \in Range(last.norm) : ~(r.t.m = 2 /\ r.t.d = 29)

(* C1 on the inputs with one row per day: the statement holds there. *)
C1_OneRowPerDay ==
    (Done /\ ~HasDuplicateDay(last.args.df)) =>
        /\ \A s \in CompleteSpans : DoysOf(s) = 1..365
        /\ \A r \in Range(last.norm) : ~(r.t.m = 2 /\ r.t.d = 29)

(* C2: every normalized row has 1 <= day_of_year <= 365,                   *)
(* 1 <= week_num <= 52 and 1 <= month_num <= 12.                           *)
C2_NormalizedRanges ==
    Done => \A r \in Range(last.norm) :
                r.doy \in 1..365 /\ r.week_num \in 1..52 /\ r.month_num \in 1..12

(* C3 as stated: in a complete fiscal year week_num takes exactly the      *)
(* values 1..52 and week 52 holds 8 day-of-year slots in a leap year,      *)
(* 7 otherwise.                                                            *)
Week52Slots(s) == {r.doy : r \in {q \in Range(NormRowsOf(s)) : q.week_num = 52}}

C4_FiscalShift ==
    Done => \A r \in Range(last.norm) :
                /\ (start_month = 10 /\ r.t \in {Date(2017, 1, 15), Date(2016, 10, 5)})
                      => r.year = 2017
                /\ (start_month > 6 /\ r.t.m >= start_month) => r.year = r.t.y + 1
                /\ (start_month > 6 /\ r.t.m < start_month) => r.year = r.t.y

C4_Witness ==
    /\ Done
    /\ start_month = 10
    /\ \E r1, r2 \in Range(last.norm) :
          /\ r1.t = Date(2017, 1, 15) /\ r1.year = 2017
          /\ r2.t = Date(2016, 10, 5) /\ r2.year = 2017

-----------------------------------------------------------------------------
(* The rolling averager has run in the last call: its input is last.cum,   *)
(* its output last.rolled.                                                 *)
Rolled == Done /\ rolling_window \notin {NoneVal, Unset}

LastCol == BucketCol(last.args.freq)

EarliestYears(S, k) == {y \in S : Cardinality({z \in S : z < y}) < k}

WindowYears(S) == {y \in YearsIn(last.cum) : S <= y /\ y < S + rolling_window}

WindowRows(S, b) ==
    SelectSeq(last.cum, LAMBDA r : r.year \in WindowYears(S) /\ Bucket(r, LastCol) = b)

(* C5: with n distinct fiscal years and 2 <= W <= n the averager emits     *)
(* exactly n - W + 1 window series, started by the n - W + 1 earliest      *)
(* fiscal years; years 2000..2010 and W = 5 give the starts 2000..2006.    *)
C5_RollingWindowCount ==
    Rolled =>
        LET ys == YearsIn(last.cum)
            n == Cardinality(ys)
            W == rolling_window
        IN /\ W <= n
           /\ YearsIn(last.rolled) = EarliestYears(ys, n - W + 1)
           /\ Cardinality(YearsIn(last.rolled)) = n - W + 1
           /\ (ys = 2000..2010 /\ W = 5) => YearsIn(last.rolled) = 2000..2006
           /\ mode = "annual_cycle" => Len(last.entries) = n - W + 1

C5_Witness ==
    /\ Rolled
    /\ rolling_window = 5
    /\ YearsIn(last.cum) = 2000..2010
    /\ YearsIn(last.rolled) = 2000..2006

(* C6: for each window start S the value at bucket b is the mean of the    *)
(* values of all rows at bucket b whose fiscal year lies in [S, S+W), the  *)
(* window's rows carry fiscal year S, and in annual_cycle mode the legend  *)
(* of the window's series is "S-(S+W-1)".                                  *)
C6_WindowMean ==
    Rolled =>
        /\ \A r \in Range(last.rolled) :
              /\ WindowRows(r.year, Bucket(r, LastCol)) # <<>>
              /\ r.v = MeanQ(MapSeq(WindowRows(r.year, Bucket(r, LastCol)), LAMBDA q : q.v))
        /\ \A S \in YearsIn(last.rolled) :
              {Bucket(r, LastCol) : r \in {q \in Range(last.rolled) : q.year = S}}
                 = {Bucket(r, LastCol) : r \in {q \in Range(last.cum) : q.year \in WindowYears(S)}}
        /\ \A i, j \in 1..Len(last.rolled) :
              (last.rolled[i].year = last.rolled[j].year
                 /\ Bucket(last.rolled[i], LastCol) = Bucket(last.rolled[j], LastCol)) => i = j
        /\ mode = "annual_cycle" =>
              /\ {last.entries[i].legend_name.from : i \in 1..Len(last.entries)}
                    = YearsIn(last.rolled)
              /\ \A i \in 1..Len(last.entries) :
                    LET en == last.entries[i]
                        S == en.legend_name.from
                    IN /\ en.legend_name.kind = "window"
                       /\ en.legend_name.to = S + rolling_window - 1
                       /\ Len(en.df) = Cardinality({q \in Range(last.rolled) : q.year = S})
                       /\ \A x \in Range(en.df) :
                             /\ x.year = S
                             /\ \E r \in Range(last.rolled) :
                                   r.year = S /\ Bucket(r, LastCol) = x.x /\ r.v = x.v

C6_Witness ==
    /\ Rolled
    /\ mode = "annual_cycle"
    /\ \E i \in 1..Len(last.entries) :
          LET en == last.entries[i]
              S == en.legend_name.from
          IN /\ en.legend_name.to = S + rolling_window - 1
             /\ \E x \in Range(en.df) :
                   LET rows == WindowRows(S, x.x)
                   IN /\ Cardinality({q.year : q \in Range(rows)}) >= 2
                      /\ Cardinality({q.v : q \in Range(rows)}) >= 2
                      /\ x.v = MeanQ(MapSeq(rows, LAMBDA q : q.v))

(* C7: every window series averages rows from exactly W distinct fiscal    *)
(* years, also when the fiscal years of the series are not consecutive.    *)
C7_FullWindows ==
    Rolled => \A S \in YearsIn(last.rolled) : Cardinality(WindowYears(S)) = rolling_window

(* C7 on series whose fiscal years are consecutive: the statement holds. *)
Consecutive(S) == \A y \in S : y + 1 \in S \/ \A z \in S : z <= y

C7_ConsecutiveYears ==
    (Rolled /\ Consecutive(YearsIn(last.cum))) =>
        \A S \in YearsIn(last.rolled) : Cardinality(WindowYears(S)) = rolling_window

-----------------------------------------------------------------------------
(* The cumulative transform has run in the last call: its input is         *)
(* last.resampled, its output last.cum.                                    *)
Cumulated == Done /\ cumul /\ mode \in {"annual_cycle", "statistics"}

(* The sum of the values of year y at the buckets up to and including b. *)
PrefixSum(df, y, b) ==
    SumQ(MapSeq(SelectSeq(df, LAMBDA r : r.year = y /\ Bucket(r, LastCol) <= b),
                LAMBDA r : r.v))

OneRowPerBucket(df, y) ==
    \A i, j \in 1..Len(df) :
        (df[i].year = y /\ df[j].year = y
           /\ Bucket(df[i], LastCol) = Bucket(df[j], LastCol)) => i = j

(* The values of year y in ascending bucket order, one row per bucket. *)
YearValues(df, y) ==
    LET rows == SelectSeq(df, LAMBDA r : r.year = y)
        bs == SortedInts({Bucket(rows[i], LastCol) : i \in 1..Len(rows)})
    IN [i \in 1..Len(bs) |->
           (CHOOSE r \in Range(rows) : Bucket(r, LastCol) = bs[i]).v]

OneTwoThree == << QInt(1), QInt(2), QInt(3) >>
OneThreeSix == << QInt(1), QInt(3), QInt(6) >>
OneFourTen == << QInt(1), QInt(4), QInt(10) >>

Twice == Cumulate(last.cum, last.args.freq, last.args.tie)

RunningSumAt(i) ==
    /\ last.cum[i] = [last.resampled[i] EXCEPT
                         !.v = PrefixSum(last.resampled, last.resampled[i].year,
                                         Bucket(last.resampled[i], LastCol))]
    /\ Twice[i].v = PrefixSum(last.cum, last.cum[i].year, Bucket(last.cum[i], LastCol))

Examples(y) ==
    (OneRowPerBucket(last.resampled, y) /\ YearValues(last.resampled, y) = OneTwoThree)
        => /\ YearValues(last.cum, y) = OneThreeSix
           /\ YearValues(Twice, y) = OneFourTen

(* C8 as stated: in annual_cycle and statistics modes, within each fiscal  *)
(* year the value at a bucket becomes the sum of that year's values at all *)
(* buckets up to and including it, whatever the other years and the row    *)
(* order; [1,2,3] gives [1,3,6], and applying it twice gives [1,4,10].     *)
C8_RunningSumPerBucket ==
    Cumulated =>
        /\ Len(last.cum) = Len(last.resampled)
        /\ \A i \in 1..Len(last.resampled) : RunningSumAt(i)
        /\ \A y \in YearsIn(last.resampled) : Examples(y)

(* C8 amended: the same, for the fiscal years that have one row per        *)
(* bucket (every year at weekly and monthly frequency).                    *)
C8_RunningSumOneRowPerBucket ==
    Cumulated =>
        /\ Len(last.cum) = Len(last.resampled)
        /\ \A i \in 1..Len(last.resampled) :
              OneRowPerBucket(last.resampled, last.resampled[i].year) => RunningSumAt(i)
        /\ \A y \in YearsIn(last.resampled) : Examples(y)
        /\ last.args.freq \in {"W", "ME"} =>
              \A y \in YearsIn(last.resampled) : OneRowPerBucket(last.resampled, y)

C8_Witness ==
    /\ Cumulated
    /\ \E y \in YearsIn(last.resampled) :
          /\ OneRowPerBucket(last.resampled, y)
          /\ YearValues(last.resampled, y) = OneTwoThree
          /\ YearValues(last.cum, y) = OneThreeSix
          /\ YearValues(Twice, y) = OneFourTen
    /\ \E i, j \in 1..Len(last.resampled) :
          /\ last.resampled[i].year # last.resampled[j].year
          /\ i < j
          /\ Bucket(last.resampled[i], LastCol) > Bucket(last.resampled[j], LastCol)

(* C9: with the cumulative option and a rolling window in annual_cycle     *)
(* mode, each window value is the mean, over the window's rows at that     *)
(* bucket, of the rows' per-year running sums; and the running sums are    *)
(* taken over the resampled rows: at weekly and monthly frequency the      *)
(* cumulated value at a bucket is the sum of the bucket means up to it.    *)
RowRunningSum(df, i) ==
    SumQ(MapSeq(SelectSeq([j \in 1..Len(df) |-> j],
                          LAMBDA j : /\ df[j].year = df[i].year
                                     /\ \/ Bucket(df[j], LastCol) < Bucket(df[i], LastCol)
                                        \/ /\ Bucket(df[j], LastCol) = Bucket(df[i], LastCol)
                                           /\ IF last.args.tie = "first" THEN j <= i ELSE i <= j),
                LAMBDA j : df[j].v))

MeanOfRunningSums(S, b) ==
    LET df == last.resampled
        idx == SelectSeq([j \in 1..Len(df) |-> j],
                         LAMBDA j : /\ S <= df[j].year /\ df[j].year < S + rolling_window
                                    /\ Bucket(df[j], LastCol) = b)
    IN MeanQ(MapSeq(idx, LAMBDA j : RowRunningSum(df, j)))

BucketMean(y, b) ==
    MeanQ(MapSeq(SelectSeq(last.norm, LAMBDA r : r.year = y /\ Bucket(r, LastCol) = b),
                 LAMBDA r : r.v))

SumOfBucketMeans(y, b) ==
    LET bs == SortedInts({Bucket(r, LastCol) :
                             r \in {q \in Range(last.norm) : q.year = y /\ Bucket(q, LastCol) <= b}})
    IN SumQ(MapSeq(bs, LAMBDA c : BucketMean(y, c)))

(* The other order: the running sum, along the buckets, of the window means. *)
RunningSumOfMeans(S, b) ==
    LET df == last.resampled
        bs == SortedInts({Bucket(r, LastCol) :
                             r \in {q \in Range(df) : /\ S <= q.year /\ q.year < S + rolling_window
                                                      /\ Bucket(q, LastCol) <= b}})
        mean(c) == MeanQ(MapSeq(SelectSeq(df, LAMBDA q : /\ S <= q.year
                                                         /\ q.year < S + rolling_window
                                                         /\ Bucket(q, LastCol) = c),
                                LAMBDA q : q.v))
    IN SumQ(MapSeq(bs, mean))

C9_CumulativeBeforeRolling ==
    (Rolled /\ Cumulated /\ mode = "annual_cycle") =>
        /\ \A r \in Range(last.rolled) : r.v = MeanOfRunningSums(r.year, Bucket(r, LastCol))
        /\ \A i \in 1..Len(last.entries) : \A x \in Range(last.entries[i].df) :
              x.v = MeanOfRunningSums(x.year, x.x)
        /\ last.args.freq \in {"W", "ME"} =>
              \A r \in Range(last.cum) : r.v = SumOfBucketMeans(r.year, Bucket(r, LastCol))

C9_Witness ==
    /\ Rolled /\ Cumulated /\ mode = "annual_cycle"
    /\ last.args.freq = "ME"
    /\ Len(last.norm) > Len(last.resampled)
    /\ \E i \in 1..Len(last.entries) : \E x \in Range(last.entries[i].df) :
          /\ x.v = MeanOfRunningSums(x.year, x.x)
          /\ x.v # RunningSumOfMeans(x.year, x.x)

(* C10: an engine whose resolved mode is historical has its cumulative     *)
(* flag off, after construction and after every later call.                *)
C10_NoCumulInHistorical == mode = "historical" => ~cumul

(* C10 for the engines constructed with mode historical: there it holds. *)
C10_RequestedHistorical == ctor.mode = "historical" => ~cumul

-----------------------------------------------------------------------------
Downgraded == ctor.mode = "statistics" /\ ctor.focus_year = NoneVal

SameAsTwin ==
    /\ mode = twin.self.mode
    /\ cumul = twin.self.cumul
    /\ series_list = twin.self.series_list
    /\ title = twin.self.title
    /\ last.err = twin.err
    /\ fig.err = twin.fig.err
    /\ "statistics_downgraded" \in warnings

(* C11: an engine constructed with mode statistics and no focus year has,  *)
(* after construction and after every later call, the resolved mode, the   *)
(* cumulative flag, the series entries and the title of the engine         *)
(* constructed with mode historical and the same other arguments (the      *)
(* cumulative option included), and the same calls fail or succeed; a      *)
(* warning is recorded.                                                    *)
C11_ModeDowngrade == Downgraded => SameAsTwin

(* C11 for the engines constructed without the cumulative option: there    *)
(* the two engines agree.                                                  *)
C11_WithoutCumul == (Downgraded /\ ~ctor.cumul) => SameAsTwin

-----------------------------------------------------------------------------
(* The statistics table appended by the last call.                         *)
InStatistics == Done /\ mode = "statistics" /\ Len(last.entries) = 1

StatsTable == last.entries[1].df

Ordered(seq) == \A i \in 1..(Len(seq) - 1) : QLeq(seq[i], seq[i + 1])

(* C12: in every row of the statistics table,                              *)
(* min <= q01 <= q05 <= q10 <= q25 <= median <= q75 <= q90 <= q95 <= q99   *)
(* <= max, and min <= mean <= max.                                         *)
C12_QuantileOrdering ==
    InStatistics =>
        \A row \in Range(StatsTable) :
            /\ Ordered(<<row.min, row.q01, row.q05, row.q10, row.q25, row.median,
                         row.q75, row.q90, row.q95, row.q99, row.max>>)
            /\ Ordered(<<row.min, row.mean, row.max>>)

C12_Witness ==
    /\ InStatistics
    /\ \E row \in Range(StatsTable) :
          /\ Ordered(<<row.min, row.q25, row.median, row.q75, row.max>>)
          /\ row.min # row.q01 /\ row.q25 # row.median /\ row.median # row.q75
          /\ row.q99 # row.max

(* The rows that enter the projector: the rolling window is ignored in     *)
(* statistics mode, so they are the rows after the cumulative step.        *)
OtherYearValues(b) ==
    MapSeq(SelectSeq(last.cum, LAMBDA r : r.year # focus_year /\ Bucket(r, LastCol) = b),
           LAMBDA r : r.v)

FocusYearValues(b) ==
    MapSeq(SelectSeq(last.cum, LAMBDA r : r.year = focus_year /\ Bucket(r, LastCol) = b),
           LAMBDA r : r.v)

AscendingValues(vals) == SortSeq(vals, LAMBDA p, q : QLt(p, q))

FromOtherYears(row) ==
    LET vals == OtherYearValues(row.x_value)
        asc == AscendingValues(vals)
    IN /\ vals # <<>>
       /\ row.min \in Range(vals) /\ \A v \in Range(vals) : QLeq(row.min, v)
       /\ row.max \in Range(vals) /\ \A v \in Range(vals) : QLeq(v, row.max)
       /\ row.mean = MeanQ(vals)
       /\ row.median = Quantile(asc, 50)
       /\ <<row.q01, row.q05, row.q10, row.q25, row.q75, row.q90, row.q95, row.q99>>
            = <<Quantile(asc, 1), Quantile(asc, 5), Quantile(asc, 10), Quantile(asc, 25),
                Quantile(asc, 75), Quantile(asc, 90), Quantile(asc, 95), Quantile(asc, 99)>>
       /\ 2 * Cardinality({i \in 1..Len(vals) : QLeq(vals[i], row.median)}) >= Len(vals)
       /\ 2 * Cardinality({i \in 1..Len(vals) : QLeq(row.median, vals[i])}) >= Len(vals)

FocusField(row) ==
    IF FocusYearValues(row.x_value) = <<>> THEN IsNaN(row.focus) /\ row.focus # QInt(0)
    ELSE row.focus = MeanQ(FocusYearValues(row.x_value))

(* C13: in statistics mode every min/quantile/median/mean/max field of a   *)
(* bucket's row is computed from exactly the rows at that bucket whose     *)
(* fiscal year differs from the focus year, and the focus field is the     *)
(* mean of the focus-year rows at that bucket, null (not zero) when there  *)
(* is none.                                                                *)
C13_StatisticsExcludeFocusYear ==
    InStatistics =>
        \A row \in Range(StatsTable) : FromOtherYears(row) /\ FocusField(row)

C13_Witness ==
    /\ InStatistics
    /\ \E row \in Range(StatsTable) :
          /\ FocusYearValues(row.x_value) = <<>>
          /\ IsNaN(row.focus)
    /\ \E row \in Range(StatsTable) :
          /\ FocusYearValues(row.x_value) # <<>>
          /\ row.focus = MeanQ(FocusYearValues(row.x_value))
          /\ row.mean = MeanQ(OtherYearValues(row.x_value))
          /\ row.mean # MeanQ(OtherYearValues(row.x_value) \o FocusYearValues(row.x_value))

-----------------------------------------------------------------------------
(* The gap filler of the last call: its input is last.filtered, its output *)
(* last.filled.  A year is complete when its first observed date is        *)
(* January 1 and its last observed date December 31.                       *)
RowsDated(df, y) == SelectSeq(df, LAMBDA r : r.t.y = y)
RowsOn(df, k) == SelectSeq(df, LAMBDA r : TsKey(r.t) = k)
ObservedYears == {last.filtered[i].t.y : i \in 1..Len(last.filtered)}

AllDays(y) == UNION {{TsKey(Date(y, m, d)) : d \in 1..DaysInMonth(y, m)} : m \in 1..12}

ObservedDays(y) == {TsKey(last.filtered[i].t) : i \in {j \in 1..Len(last.filtered) :
                                                          last.filtered[j].t.y = y}}

IsComplete(y) ==
    /\ TsKey(Date(y, 1, 1)) \in ObservedDays(y)
    /\ TsKey(Date(y, 12, 31)) \in ObservedDays(y)

MissingDays(y) == AllDays(y) \ ObservedDays(y)

DayBefore(y, k) == CHOOSE p \in AllDays(y) : p < k /\ \A q \in AllDays(y) : q < k => q <= p
DayAfter(y, k) == CHOOSE p \in AllDays(y) : p > k /\ \A q \in AllDays(y) : q > k => q >= p

(* The years that are complete and lack exactly one day, a day whose two   *)
(* neighbours have one row each.                                           *)
OneDayGaps ==
    {y \in ObservedYears :
        /\ IsComplete(y)
        /\ Cardinality(MissingDays(y)) = 1
        /\ \A k \in MissingDays(y) :
              /\ Len(RowsOn(last.filtered, DayBefore(y, k))) = 1
              /\ Len(RowsOn(last.filtered, DayAfter(y, k))) = 1}

Midpoint(a, b) == QMulFrac(QAdd(a, b), 1, 2)

GapFilledAt(y, k) ==
    /\ Len(RowsOn(last.filled, k)) = 1
    /\ RowsOn(last.filled, k)[1].v
          = Midpoint(RowsOn(last.filtered, DayBefore(y, k))[1].v,
                     RowsOn(last.filtered, DayAfter(y, k))[1].v)
    /\ Len(RowsDated(last.filled, y)) = Len(RowsDated(last.filtered, y)) + 1
    /\ Range(RowsDated(last.filtered, y)) \subseteq Range(RowsDated(last.filled, y))

(* C14: when a complete year lacks exactly one interior day, the gap       *)
(* filler adds one row for that day, whose value is the midpoint of the    *)
(* values of the previous and the next day, and changes no observed value. *)
C14_GapInterpolation ==
    last.called => \A y \in OneDayGaps : \A k \in MissingDays(y) : GapFilledAt(y, k)

C14_Witness ==
    /\ last.called
    /\ \E y \in OneDayGaps : \E k \in MissingDays(y) :
          /\ GapFilledAt(y, k)
          /\ RowsOn(last.filtered, DayBefore(y, k))[1].v
                # RowsOn(last.filtered, DayAfter(y, k))[1].v

(* C15: the gap filler adds no row dated in a year that is not complete,   *)
(* removes no row of such a year and changes none of its values, whether   *)
(* or not other years are complete; when no year is complete its output is *)
(* its input.                                                              *)
C15_IncompleteYearsUntouched ==
    last.called =>
        /\ \A y \in ObservedYears \cup {last.filled[i].t.y : i \in 1..Len(last.filled)} :
              ~(y \in ObservedYears /\ IsComplete(y))
                 => RowsDated(last.filled, y) = RowsDated(last.filtered, y)
        /\ (\A y \in ObservedYears : ~IsComplete(y)) => last.filled = last.filtered

(* C15 for the series without a complete year: the output is the input. *)
C15_NoCompleteYear ==
    (last.called /\ \A y \in ObservedYears : ~IsComplete(y)) => last.filled = last.filtered

-----------------------------------------------------------------------------
(* The resampler of the last call: its input is last.norm, its output      *)
(* last.resampled.                                                         *)
Resampled == Done /\ last.args.freq \in {"W", "ME"}

Group(y, b) == SelectSeq(last.norm, LAMBDA r : r.year = y /\ Bucket(r, LastCol) = b)

OneRowPerGroup ==
    /\ \A r \in Range(last.norm) :
          Cardinality({i \in 1..Len(last.resampled) :
                          /\ last.resampled[i].year = r.year
                          /\ Bucket(last.resampled[i], LastCol) = Bucket(r, LastCol)}) = 1
    /\ \A q \in Range(last.resampled) : Group(q.year, Bucket(q, LastCol)) # <<>>

GroupMean(q) ==
    q.v = MeanQ(MapSeq(Group(q.year, Bucket(q, LastCol)), LAMBDA r : r.v))

EarliestTimestamp(q) ==
    LET g == Group(q.year, Bucket(q, LastCol))
    IN /\ q.t \in {r.t : r \in Range(g)}
       /\ \A r \in Range(g) : TsLeq(q.t, r.t)

(* C16: for weekly and monthly frequency the resampler emits exactly one   *)
(* row per (fiscal year, bucket) of the normalized rows, whose value is    *)
(* the mean of the group's values and whose timestamp is the               *)
(* chronologically earliest timestamp of the group, for any order of the   *)
(* input rows.                                                             *)
C16_ResampledGroups ==
    Resampled =>
        /\ OneRowPerGroup
        /\ \A q \in Range(last.resampled) : GroupMean(q) /\ EarliestTimestamp(q)

(* C16 without the timestamp: one row per group, carrying the group mean. *)
C16_GroupMeans ==
    Resampled => OneRowPerGroup /\ \A q \in Range(last.resampled) : GroupMean(q)

(* C16 for the inputs given in chronological order: there the timestamp is *)
(* the earliest of the group.                                              *)
Chronological(df) == \A i \in 1..(Len(df) - 1) : TsLeq(df[i].t, df[i + 1].t)

C16_ChronologicalInput ==
    (Resampled /\ Chronological(last.args.df)) =>
        \A q \in Range(last.resampled) : EarliestTimestamp(q)

-----------------------------------------------------------------------------
(* The first call on an engine found no row within year_min..year_max.     *)
EmptyAfterFilter == last.called /\ ncalls = 1 /\ last.filtered = <<>>

(* C17: add_series called with a series that has no row left after the     *)
(* year filter fails, and appends nothing to the series list.              *)
C17_EmptySeriesFails ==
    EmptyAfterFilter => last.err # "none" /\ series_list = <<>>

(* C17 for the engines with a custom start month: there the call fails     *)
(* (the window bounds cannot be built) and appends nothing.                *)
C17_WithStartMonth ==
    (EmptyAfterFilter /\ start_month # NoneVal) =>
        last.err = "ValueError" /\ series_list = <<>>

-----------------------------------------------------------------------------
(* The window of a custom start month m: from the 1st of month m of the    *)
(* first calendar year of the rows to the last day of month m - 1 of the   *)
(* last one.                                                               *)
InWindow(t) ==
    LET ys == {r.t.y : r \in Range(last.base)}
        lo == CHOOSE y \in ys : \A z \in ys : y <= z
        hi == CHOOSE y \in ys : \A z \in ys : z <= y
    IN /\ TsKey(Date(lo, start_month, 1)) <= TsKey(t)
       /\ TsKey(t) <= TsKey(Date(hi, start_month - 1, days_per_month[start_month - 1]))

NothingInWindow ==
    /\ last.called
    /\ start_month # NoneVal
    /\ last.base # <<>>
    /\ \A r \in Range(last.base) : ~InWindow(r.t)

(* C18: with a custom start month, when the series is not empty but no row *)
(* lies inside the window, the windowed restriction yields an empty result *)
(* and add_series completes without raising, in every mode.                *)
C18_EmptyWindowCompletes ==
    NothingInWindow => last.norm = <<>> /\ last.err = "none"

(* C18 for historical and annual_cycle engines called without a rolling    *)
(* window: there the call completes, and the result is empty.              *)
C18_WithoutRollingWindow ==
    (NothingInWindow /\ mode \in {"historical", "annual_cycle"}
                     /\ last.args.rolling_window = NoneVal) =>
        /\ last.norm = <<>> /\ last.err = "none"
        /\ \A i \in 1..Len(last.entries) : last.entries[i].df = <<>>

(* C18, the restriction alone: the result is empty in every mode. *)
C18_EmptyWindow == NothingInWindow => last.norm = <<>>

-----------------------------------------------------------------------------
(* A figure built in historical mode from one series, with a focus year    *)
(* that has rows in the series.                                            *)
FocusRows == SelectSeq(series_list[1].df, LAMBDA r : r.t.y = focus_year)
OtherYears == {r.t.y : r \in Range(series_list[1].df)} \ {focus_year}
TracesOf(kind) == SelectSeq(fig.traces, LAMBDA tr : tr.kind = kind)

Projected ==
    /\ fig.called /\ fig.err = "none"
    /\ mode = "historical"
    /\ Len(series_list) = 1
    /\ focus_year # NoneVal
    /\ FocusRows # <<>>

ShiftedBy(t, k) == [t EXCEPT !.y = t.y + k]

(* C19: in historical mode with a focus year that has data, the figure     *)
(* has for each other year Y of the series exactly one overlay trace,      *)
(* whose points are the focus-year points with each timestamp shifted by   *)
(* Y - focus_year calendar years and the values unchanged, and exactly one *)
(* highlighted trace of the focus year itself.                             *)
C19_ReferenceYearProjection ==
    Projected =>
        /\ Len(TracesOf("overlay")) = Cardinality(OtherYears)
        /\ \A Y \in OtherYears :
              \E i \in 1..Len(fig.traces) :
                  /\ fig.traces[i].kind = "overlay" /\ fig.traces[i].year = Y
                  /\ fig.traces[i].x = MapSeq(FocusRows, LAMBDA r : ShiftedBy(r.t, Y - focus_year))
                  /\ fig.traces[i].y = MapSeq(FocusRows, LAMBDA r : r.v)
                  /\ \A j \in 1..Len(fig.traces) :
                        (fig.traces[j].kind = "overlay" /\ fig.traces[j].year = Y) => j = i
        /\ Len(TracesOf("focus")) = 1
        /\ TracesOf("focus")[1].x = MapSeq(FocusRows, LAMBDA r : r.t)
        /\ TracesOf("focus")[1].y = MapSeq(FocusRows, LAMBDA r : r.v)
        /\ Len(TracesOf("main")) = 1

C19_Witness ==
    /\ Projected
    /\ focus_year = 2016
    /\ OtherYears = {2015, 2017, 2018}
    /\ Len(FocusRows) = 3
    /\ \E i \in 1..Len(fig.traces) :
          /\ fig.traces[i].kind = "overlay" /\ fig.traces[i].year = 2015
          /\ fig.traces[i].x = <<Date(2015, 1, 15), Date(2015, 1, 20), Date(2015, 10, 5)>>
          /\ fig.traces[i].y = MapSeq(FocusRows, LAMBDA r : r.v)

-----------------------------------------------------------------------------
(* C20: the resolved mode and the focus year fixed by the constructor      *)
(* never change: after any sequence of add_series, add_line, add_rectangle *)
(* and create_figure calls they are what the constructor made of its       *)
(* arguments.                                                              *)
C20_ModeResolvedOnce ==
    /\ mode = IF ctor.mode = "statistics" /\ ctor.focus_year = NoneVal
              THEN "historical" ELSE ctor.mode
    /\ focus_year = ctor.focus_year

C20_Witness ==
    /\ C20_ModeResolvedOnce
    /\ ctor.mode = "statistics" /\ mode = "statistics"
    /\ ncalls >= 2
    /\ last.err = "none"
    /\ fig.called
    /\ line_list # <<>>
    /\ rectangle_list # <<>>

-----------------------------------------------------------------------------
(* The figure of the last create_figure is the one the engine would build  *)
(* now, on a bucket axis, from at least one entry.                         *)
Rendering ==
    /\ fig.called /\ fig.err = "none"
    /\ fig = FigureOf(Self)
    /\ mode \in {"annual_cycle", "statistics"}
    /\ series_list # <<>>

RenderedEntries == IF mode = "statistics" THEN <<series_list[1]>> ELSE series_list

OwnAxis(entry) ==
    /\ fig.xaxis.lo = 1
    /\ fig.xaxis.hi = MaxX(entry.freq)
    /\ fig.xaxis.ticks = MonthTicks(Self, entry.freq).ticks
    /\ fig.xaxis.labels = MonthTicks(Self, entry.freq).labels

(* The entries of the last call are those the same call appends to an      *)
(* engine fresh from the constructor, and they end the series list.        *)
OwnEntries ==
    last.called =>
        /\ last.entries = Stages(Construct(ctor), last.args).entries
        /\ last.err = Stages(Construct(ctor), last.args).err
        /\ Len(series_list) >= Len(last.entries)
        /\ SubSeq(series_list, Len(series_list) - Len(last.entries) + 1, Len(series_list))
              = last.entries

(* C21: the entries appended by an add_series call depend only on the      *)
(* constructor's configuration and on that call's arguments, and so does   *)
(* their rendering: the bucket axis (range and month ticks) of the figure  *)
(* is the axis of the frequency of every entry it draws, whatever was      *)
(* passed to the other add_series calls.                                   *)
C21_NoCrossCallState ==
    /\ OwnEntries
    /\ Rendering => \A i \in 1..Len(RenderedEntries) : OwnAxis(RenderedEntries[i])

(* C21, the entries alone: they depend on the configuration and on the     *)
(* call's own arguments only.                                              *)
C21_EntriesOwnArguments == OwnEntries

-----------------------------------------------------------------------------
(* The first call on an engine was made without a frequency; DailyCall is  *)
(* the same call with freq = 'D' on the same fresh engine.                 *)
FrequencyOmitted == last.called /\ ncalls = 1 /\ last.args.freq = NoneStr

DailyCall == Stages(Construct(ctor), [last.args EXCEPT !.freq = "D"])

(* What an entry holds, the recorded freq argument left aside. *)
EntryData(entry) == [entry EXCEPT !.freq = "D"]

SameAsDaily ==
    /\ last.err = DailyCall.err
    /\ last.resampled = DailyCall.resampled
    /\ last.cum = DailyCall.cum
    /\ last.rolled = DailyCall.rolled
    /\ Len(last.entries) = Len(DailyCall.entries)
    /\ \A i \in 1..Len(last.entries) :
          EntryData(last.entries[i]) = EntryData(DailyCall.entries[i])
    /\ series_list = last.entries

(* C22: add_series called with freq = None goes through the resampler, the *)
(* cumulative transform, the rolling averager and the projector as the     *)
(* same call with freq = 'D' does: it fails or completes as that call and  *)
(* appends the same series, with a rolling window too.                     *)
C22_NoneIsDaily == FrequencyOmitted => SameAsDaily

(* C22 for the calls whose rolling window is absent or ignored: there the  *)
(* two calls agree.                                                        *)
C22_WithoutRollingWindow ==
    (FrequencyOmitted /\ rolling_window = NoneVal) => SameAsDaily

-----------------------------------------------------------------------------
(* The pairs (span, fiscal year) of the rows kept by the windowed          *)
(* restriction of the last call, a span named by the calendar year in      *)
(* which it starts.                                                        *)
CustomStart == Done /\ start_month # NoneVal

SpanLabels == {<<SpanOf(r.t), r.year>> : r \in Range(last.norm)}

(* C23: for every start month 2..12, two rows kept by the windowed         *)
(* restriction get the same fiscal year if and only if they lie in the     *)
(* same 12-month span from the 1st of the start month; the fiscal years of *)
(* distinct spans are distinct and increase with time.                     *)
C23_FiscalYearPartition ==
    CustomStart =>
        /\ start_month \in 2..12
        /\ \A p, q \in SpanLabels :
              /\ (p[2] = q[2]) <=> (p[1] = q[1])
              /\ (p[1] < q[1]) => (p[2] < q[2])

C23_Witness ==
    /\ CustomStart
    /\ start_month <= 6
    /\ \E p, q \in SpanLabels : p[1] < q[1] /\ p[2] < q[2]
    /\ \E a, b \in {<<r.t.y, r.year>> : r \in Range(last.norm)} :
          a[1] # b[1] /\ a[2] = b[2]

-----------------------------------------------------------------------------
(* The uniform rule: the calendar year, plus one from the start month on.  *)
UniformRule(t) == t.y + (IF t.m >= start_month THEN 1 ELSE 0)

(* C24 as stated: for every start month 2..12 and every date the fiscal    *)
(* year given to a row is the one of the uniform rule                      *)
(* year + (1 if month >= start_month else 0).                              *)
C24_UniformRule ==
    CustomStart => \A r \in Range(last.norm) : r.year = UniformRule(r.t)

(* C24 amended: the fiscal year given to a row is the one of the uniform   *)
(* rule for the start months 7..12, and one less than it for the start     *)
(* months 2..6, for every date.                                            *)
C24_UniformRuleFromJuly ==
    CustomStart =>
        \A r \in Range(last.norm) :
            r.year = UniformRule(r.t) - (IF start_month <= 6 THEN 1 ELSE 0)

C24_Witness ==
    /\ CustomStart
    /\ start_month = 7
    /\ last.norm # <<>>
    /\ \E r1, r2 \in {last.norm[1], last.norm[Len(last.norm)]} :
          /\ r1.t.m >= 7 /\ r1.year = r1.t.y + 1
          /\ r2.t.m < 7 /\ r2.year = r2.t.y
          /\ r1.year = r2.year

-----------------------------------------------------------------------------
(* A figure built in historical mode, with a focus year, from the one      *)
(* series of a call without rolling window.                                *)
HistoricalFocus ==
    /\ fig.called /\ fig.err = "none"
    /\ mode = "historical"
    /\ focus_year # NoneVal
    /\ Len(series_list) = 1
    /\ rolling_window = NoneVal

(* The rows of the series whose fiscal year is the focus year. *)
FiscalFocusRows == SelectSeq(series_list[1].df, LAMBDA r : r.year = focus_year)

(* The focus partition of the same call on a statistics engine with the    *)
(* same other arguments.                                                   *)
StatisticsFocusPart ==
    FocusPart(Stages(Construct([ctor EXCEPT !.mode = "statistics"]), last.args).rolled,
              focus_year)

FocusTracesFrom(rows) ==
    IF rows = <<>> THEN TracesOf("focus") = <<>> /\ TracesOf("overlay") = <<>>
    ELSE /\ Len(TracesOf("focus")) = 1
         /\ TracesOf("focus")[1].x = MapSeq(rows, LAMBDA r : r.t)
         /\ TracesOf("focus")[1].y = MapSeq(rows, LAMBDA r : r.v)
         /\ \A i \in 1..Len(TracesOf("overlay")) :
               TracesOf("overlay")[i].y = MapSeq(rows, LAMBDA r : r.v)

FocusIsFiscalYear ==
    /\ FocusTracesFrom(FiscalFocusRows)
    /\ {r.t : r \in Range(FiscalFocusRows)} = {r.t : r \in Range(StatisticsFocusPart)}

(* C25: in historical mode, under a custom start month too, the            *)
(* highlighted focus trace and the overlays are built from exactly the     *)
(* rows whose fiscal year is the focus year, the rows that statistics mode *)
(* puts in its focus partition for the same configuration and input.       *)
C25_FocusIsFiscalYear == HistoricalFocus => FocusIsFiscalYear

(* C25 without a custom start month, where the fiscal year is the calendar *)
(* year: there the statement holds.                                        *)
C25_CalendarYearStart == (HistoricalFocus /\ start_month = NoneVal) => FocusIsFiscalYear

-----------------------------------------------------------------------------
(* 1 + the number of calendar days, February 29 left out, from the 1st of  *)
(* the start month that opens the fiscal year of t to t.                   *)
FiscalDayOfYear(t) ==
    SumInts([j \in 1..12 |-> days_per_month[((start_month - 2 + j) % 12) + 1]],
            1, (t.m - start_month) % 12) + t.d

DayOfFiscalYear == \A r \in Range(last.norm) : r.doy = FiscalDayOfYear(r.t)

(* C26: under a custom start month the day_of_year of a row is 1 + the     *)
(* number of calendar days (February 29 excluded) from the 1st of the      *)
(* start month that opens its fiscal year to its date, so the same (month, *)
(* day) has the same day_of_year in every fiscal year, also when the       *)
(* series lacks days or has several rows on one day.                       *)
C26_DayOfFiscalYear == CustomStart => DayOfFiscalYear

(* C26 for the series with every day of their fiscal years, one row per    *)
(* day: there the statement holds.                                         *)
C26_EveryDayOnce ==
    (CustomStart /\ ~HasDuplicateDay(last.args.df)
                 /\ {SpanOf(r.t) : r \in Range(last.norm)} \subseteq CompleteSpans)
        => DayOfFiscalYear

-----------------------------------------------------------------------------
(* The last call reached the rolling averager with a window larger than    *)
(* the number of distinct fiscal years of its rows.  The window is the one *)
(* the engine keeps: in statistics mode the argument is discarded.         *)
ReachedAverager == last.called /\ ~(start_month # NoneVal /\ last.base = <<>>)

WindowTooLarge ==
    /\ ReachedAverager
    /\ rolling_window \notin {NoneVal, Unset}
    /\ rolling_window > Cardinality(YearsIn(last.cum))

-----------------------------------------------------------------------------
(* The input of the last call with every value of the focus year raised by *)
(* 2, and the same call made with it on the same fresh engine.             *)
InputFiscalYear(t) ==
    IF start_month = NoneVal THEN t.y ELSE FiscalYear(t.y, t.m, start_month)

OtherFocusValues ==
    MapSeq(last.args.df,
           LAMBDA r : IF InputFiscalYear(r.t) = focus_year
                      THEN [r EXCEPT !.v = QAdd(r.v, QInt(2))] ELSE r)

OtherRun == Stages(Construct(ctor), [last.args EXCEPT !.df = OtherFocusValues])

StatisticsOf(row) ==
    <<row.x_value, row.min, row.q01, row.q05, row.q10, row.q25, row.median, row.q75,
      row.q90, row.q95, row.q99, row.max, row.mean>>

(* C28: in statistics mode, two add_series runs with the same              *)
(* configuration on inputs that differ only in the values of the rows of   *)
(* the focus year give the same min, quantile, median, mean and max        *)
(* columns, also when the gap filler interpolates and when the cumulative  *)
(* option is on.                                                           *)
C28_FocusNonInterference ==
    (InStatistics /\ ncalls = 1) =>
        /\ OtherRun.err = "none"
        /\ MapSeq(OtherRun.entries[1].df, StatisticsOf) = MapSeq(StatsTable, StatisticsOf)

(* C28 for the series the gap filler leaves as they are: there the         *)
(* statistics do not depend on the focus year's values.                    *)
C28_WithoutGapFilling ==
    (InStatistics /\ ncalls = 1 /\ last.filled = last.filtered) =>
        /\ OtherRun.err = "none"
        /\ MapSeq(OtherRun.entries[1].df, StatisticsOf) = MapSeq(StatsTable, StatisticsOf)

-----------------------------------------------------------------------------
(* create_figure was called on an engine whose series list is empty (the   *)
(* list never shrinks, so it was empty at that call).                      *)
BuiltEmpty == fig.called /\ series_list = <<>>

(* C29: create_figure called on an engine to which no series has been      *)
(* added completes without error in historical, annual_cycle and           *)
(* statistics mode, and the figure has no data trace.                      *)
C29_BuildWithoutSeries == BuiltEmpty => fig.err = "none" /\ fig.traces = <<>>

(* C29 in statistics mode: there the call completes, with a warning and a  *)
(* figure without trace.                                                   *)
C29_StatisticsWithoutSeries ==
    (BuiltEmpty /\ mode = "statistics") =>
        /\ fig.err = "none" /\ fig.traces = <<>>
        /\ "no_series" \in warnings

-----------------------------------------------------------------------------
(* The entries that the last step added at the end of old, if new extends  *)
(* it.                                                                     *)
Extends(new, old) ==
    Len(new) >= Len(old) /\ SubSeq(new, 1, Len(old)) = old

Added(new, old) == SubSeq(new, Len(old) + 1, Len(new))

OneRowPerBucketValue(df) == \A i, j \in 1..Len(df) : df[i].x = df[j].x => i = j

(* The number of entries a successful call in annual_cycle mode is to      *)
(* append: one per distinct fiscal year of the series, one per window      *)
(* start year when rolling (n - W + 1 of them).                            *)
ExpectedAnnualEntries ==
    LET n == Cardinality(YearsIn(last.norm))
    IN IF rolling_window \notin {NoneVal, Unset} THEN n - rolling_window + 1 ELSE n

(* C30: the series list is append-only.  A successful add_series appends   *)
(* exactly one entry in historical and statistics modes and, in            *)
(* annual_cycle mode, one entry per distinct fiscal year of the series     *)
(* (per window start year when rolling), each with at most one row per     *)
(* bucket; a failed one appends nothing; no step removes or alters an      *)
(* earlier entry; add_line, add_rectangle and create_figure leave the      *)
(* series list unchanged and add_series leaves the line and rectangle      *)
(* lists unchanged.                                                        *)
C30_AppendOnly ==
    [][/\ Extends(series_list', series_list)
       /\ ncalls' = ncalls => series_list' = series_list
       /\ ncalls' = ncalls + 1 =>
             /\ line_list' = line_list /\ rectangle_list' = rectangle_list
             /\ Added(series_list', series_list) = last'.entries
             /\ last'.err # "none" => series_list' = series_list
             /\ (last'.err = "none" /\ mode' \in {"historical", "statistics"})
                   => Len(series_list') = Len(series_list) + 1
             /\ (last'.err = "none" /\ mode' = "annual_cycle")
                   => /\ Len(series_list') = Len(series_list) + ExpectedAnnualEntries'
                      /\ \A i \in 1..Len(last'.entries) :
                            /\ OneRowPerBucketValue(last'.entries[i].df)
                            /\ \A j \in 1..Len(last'.entries) :
                                  last'.entries[i].legend_name = last'.entries[j].legend_name
                                     => i = j]_vars

C30_Witness ==
    /\ mode = "annual_cycle"
    /\ ncalls = 2
    /\ last.err = "none"
    /\ Len(last.entries) = 2
    /\ Len(series_list) = 3
    /\ SubSeq(series_list, 2, 3) = last.entries
    /\ line_list # <<>> /\ rectangle_list # <<>>
    /\ fig.called

====
